---- MODULE Spec2Model ----
(***************************************************************************)
(* Model of src/client/client_laura.cpp: the BotClient of the "cycles"     *)
(* game.  The client connects, then loops: receive a game-state snapshot,  *)
(* decide a move (edge escape, square patrol, fallback, or exit), send it. *)
(*                                                                         *)
(* Positions are records [x, y]; directions are the four strings below.    *)
(* The game-state, player and direction helpers live in api.h / utils.h,   *)
(* which are not part of the sources; they are modelled from the design's  *)
(* section 3 and section 6.                                                *)
(***************************************************************************)
EXTENDS Integers, Sequences, FiniteSets, TLC

(***************************************************************************)
(* Bounds of the exploration.                                              *)
(***************************************************************************)
\* Width and height of the grid in the snapshots of the free-server runs.
GridW == 6
GridH == 6
\* Number of snapshots the free server delivers in one run.
MaxTicks == 2
\* Width and height of the grid in the snapshots of the game-server runs.
ArenaW == 7
ArenaH == 7
\* Number of remember calls applied to a drawn trail.
MaxRemember == 3
\* Number of snapshots the patrol server delivers in one run, and the height
\* of its grid.
MaxPatrolTicks == 13
PatrolH == 8

(***************************************************************************)
(* Program constants.                                                      *)
(***************************************************************************)
MAX_TRAIL_LENGTH == 200
dangerZone == 2

VARIABLES
  pc,                 \* "main", "construct", "run", "sendMove", "exited"
  exitCode,           \* -1 while the process runs, then its exit code
  exitCause,          \* which exit statement ended the process
  name,               \* BotClient::name
  state,              \* BotClient::state, the last snapshot received
  my_player,          \* BotClient::my_player
  currentDirection,
  trail,              \* std::set of positions
  trailQueue,         \* std::queue of positions, oldest first
  squareSize,
  stepsOnCurrentSide,
  sidesCompleted,
  lastMove,           \* last direction handed to connection.sendMove
  rung,               \* which return of decideMove produced lastMove
  ticks,              \* snapshots received
  sent,               \* moves sent
  remembered          \* every position passed to updateTrail, in order

vars == <<pc, exitCode, exitCause, name, state, my_player,
          currentDirection, trail, trailQueue, squareSize,
          stepsOnCurrentSide, sidesCompleted, lastMove, rung, ticks, sent,
          remembered>>

policyVars == <<currentDirection, squareSize, stepsOnCurrentSide, sidesCompleted>>
trailVars == <<trail, trailQueue, remembered>>

(***************************************************************************)
(* Direction, position and game-state helpers (api.h, utils.h).            *)
(***************************************************************************)
Directions == {"north", "east", "south", "west"}

Pos(x, y) == [x |-> x, y |-> y]

\* Origin top-left, +x east, +y south.
getDirectionVector(direction) ==
  CASE direction = "north" -> Pos(0, -1)
    [] direction = "east"  -> Pos(1, 0)
    [] direction = "south" -> Pos(0, 1)
    [] direction = "west"  -> Pos(-1, 0)

\* The integer-to-direction helper: a fixed mapping of 0..3 onto the four
\* directions.
getDirectionFromValue(i) ==
  CASE i = 0 -> "north"
    [] i = 1 -> "east"
    [] i = 2 -> "south"
    [] i = 3 -> "west"

Plus(p, v) == Pos(p.x + v.x, p.y + v.y)

isInsideGrid(s, p) ==
  /\ 0 <= p.x /\ p.x < s.gridWidth
  /\ 0 <= p.y /\ p.y < s.gridHeight

getGridCell(s, p) == s.grid[p]

CellsOf(w, h) == {Pos(x, y) : x \in 0..(w - 1), y \in 0..(h - 1)}

Range(q) == {q[i] : i \in 1..Len(q)}

(***************************************************************************)
(* BotClient::is_valid_move, lines 54-90.                                  *)
(***************************************************************************)
is_valid_move_noEdge(direction) ==
  LET new_pos == Plus(my_player.position, getDirectionVector(direction)) IN
  IF ~isInsideGrid(state, new_pos) THEN FALSE
  ELSE IF getGridCell(state, new_pos) /= 0 THEN FALSE
  ELSE IF \E i \in 1..Len(state.players) :
            /\ state.players[i].id /= my_player.id
            /\ state.players[i].position = new_pos THEN FALSE
  ELSE TRUE

\* The validator with an edge buffer one cell wide.
is_valid_move_edgeOne(direction) ==
  LET new_pos == Plus(my_player.position, getDirectionVector(direction)) IN
  IF ~isInsideGrid(state, new_pos) THEN FALSE
  ELSE IF getGridCell(state, new_pos) /= 0 THEN FALSE
  ELSE IF \E i \in 1..Len(state.players) :
            /\ state.players[i].id /= my_player.id
            /\ state.players[i].position = new_pos THEN FALSE
  ELSE IF getGridCell(state, new_pos) = my_player.id THEN FALSE
  ELSE IF \/ new_pos.x < 1 \/ new_pos.x >= state.gridWidth - 1
          \/ new_pos.y < 1 \/ new_pos.y >= state.gridHeight - 1 THEN FALSE
  ELSE TRUE

is_valid_move(direction) ==
  LET new_pos == Plus(my_player.position, getDirectionVector(direction)) IN
  IF ~isInsideGrid(state, new_pos) THEN FALSE
  ELSE IF getGridCell(state, new_pos) /= 0 THEN FALSE
  ELSE IF \E i \in 1..Len(state.players) :
            /\ state.players[i].id /= my_player.id
            /\ state.players[i].position = new_pos THEN FALSE
  ELSE IF getGridCell(state, new_pos) = my_player.id THEN FALSE
  ELSE IF \/ new_pos.x < 2 \/ new_pos.x >= state.gridWidth - 2
          \/ new_pos.y < 2 \/ new_pos.y >= state.gridHeight - 2 THEN FALSE
  ELSE TRUE

(***************************************************************************)
(* BotClient::is_self_collision, lines 93-95.                              *)
(***************************************************************************)
is_self_collision_never(pos) == FALSE

is_self_collision(pos) == pos \in trail

(***************************************************************************)
(* BotClient::updateTrail, lines 98-108, as the new (trail, trailQueue).   *)
(***************************************************************************)
updateTrail_evictAtCapacity(t, q, newPos) ==
  LET t1 == t \cup {newPos}
      q1 == Append(q, newPos)
  IN IF Len(q1) >= MAX_TRAIL_LENGTH
     THEN [trail |-> t1 \ {Head(q1)}, trailQueue |-> Tail(q1)]
     ELSE [trail |-> t1, trailQueue |-> q1]

updateTrail(t, q, newPos) ==
  LET t1 == t \cup {newPos}
      q1 == Append(q, newPos)
  IN IF Len(q1) > MAX_TRAIL_LENGTH
     THEN [trail |-> t1 \ {Head(q1)}, trailQueue |-> Tail(q1)]
     ELSE [trail |-> t1, trailQueue |-> q1]

(***************************************************************************)
(* BotClient::decideMove, lines 111-164.                                   *)
(***************************************************************************)
nearLeft == my_player.position.x < dangerZone
nearRight == my_player.position.x >= state.gridWidth - dangerZone
nearTop == my_player.position.y < dangerZone
nearBottom == my_player.position.y >= state.gridHeight - dangerZone

\* The edge block without its validator calls.
EdgeEscape_noValidate ==
  IF nearRight THEN "west"
  ELSE IF nearLeft THEN "east"
  ELSE IF nearTop THEN "south"
  ELSE IF nearBottom THEN "north"
  ELSE "none"

\* Lines 120-126: the direction the edge block returns, or "none" when
\* control leaves the block without a return.
EdgeEscape ==
  IF nearLeft \/ nearRight \/ nearTop \/ nearBottom
  THEN IF nearRight /\ is_valid_move("west") THEN "west"
       ELSE IF nearLeft /\ is_valid_move("east") THEN "east"
       ELSE IF nearTop /\ is_valid_move("south") THEN "south"
       ELSE IF nearBottom /\ is_valid_move("north") THEN "north"
       ELSE "none"
  ELSE "none"

\* The switch turning the other way round.
Rotate_counterclockwise(direction) ==
  CASE direction = "north" -> "west"
    [] direction = "west"  -> "south"
    [] direction = "south" -> "east"
    [] direction = "east"  -> "north"

\* Lines 130-135: the switch on currentDirection.
Rotate(direction) ==
  CASE direction = "north" -> "east"
    [] direction = "east"  -> "south"
    [] direction = "south" -> "west"
    [] direction = "west"  -> "north"

\* The square-pattern block without the reset of stepsOnCurrentSide.
PatrolTransition_noStepReset ==
  IF stepsOnCurrentSide >= squareSize
  THEN LET completed == sidesCompleted + 1 IN
       [currentDirection   |-> Rotate(currentDirection),
        stepsOnCurrentSide |-> stepsOnCurrentSide,
        squareSize         |-> IF completed = 4 THEN squareSize + 1 ELSE squareSize,
        sidesCompleted     |-> IF completed = 4 THEN 0 ELSE completed]
  ELSE [currentDirection   |-> currentDirection,
        stepsOnCurrentSide |-> stepsOnCurrentSide,
        squareSize         |-> squareSize,
        sidesCompleted     |-> sidesCompleted]

\* The square-pattern block turning only after one step too many.
PatrolTransition_strictGreater ==
  IF stepsOnCurrentSide > squareSize
  THEN LET completed == sidesCompleted + 1 IN
       [currentDirection   |-> Rotate(currentDirection),
        stepsOnCurrentSide |-> 0,
        squareSize         |-> IF completed = 4 THEN squareSize + 1 ELSE squareSize,
        sidesCompleted     |-> IF completed = 4 THEN 0 ELSE completed]
  ELSE [currentDirection   |-> currentDirection,
        stepsOnCurrentSide |-> stepsOnCurrentSide,
        squareSize         |-> squareSize,
        sidesCompleted     |-> sidesCompleted]

\* The square-pattern block without the reset of sidesCompleted.
PatrolTransition_noWrap ==
  IF stepsOnCurrentSide >= squareSize
  THEN LET completed == sidesCompleted + 1 IN
       [currentDirection   |-> Rotate(currentDirection),
        stepsOnCurrentSide |-> 0,
        squareSize         |-> IF completed = 4 THEN squareSize + 1 ELSE squareSize,
        sidesCompleted     |-> completed]
  ELSE [currentDirection   |-> currentDirection,
        stepsOnCurrentSide |-> stepsOnCurrentSide,
        squareSize         |-> squareSize,
        sidesCompleted     |-> sidesCompleted]

\* Lines 129-142: the policy state after the square-pattern block.
PatrolTransition ==
  IF stepsOnCurrentSide >= squareSize
  THEN LET completed == sidesCompleted + 1 IN
       [currentDirection   |-> Rotate(currentDirection),
        stepsOnCurrentSide |-> 0,
        squareSize         |-> IF completed = 4 THEN squareSize + 1 ELSE squareSize,
        sidesCompleted     |-> IF completed = 4 THEN 0 ELSE completed]
  ELSE [currentDirection   |-> currentDirection,
        stepsOnCurrentSide |-> stepsOnCurrentSide,
        squareSize         |-> squareSize,
        sidesCompleted     |-> sidesCompleted]

\* The test without the call of is_self_collision.
CleanMove_ignoreTrail(direction) == is_valid_move(direction)

\* The test of lines 145 and 155.
CleanMove(direction) ==
  /\ is_valid_move(direction)
  /\ ~is_self_collision(Plus(my_player.position, getDirectionVector(direction)))

\* The fallback loop counting down from 3.
FallbackDirection_reversed ==
  IF CleanMove(getDirectionFromValue(3)) THEN getDirectionFromValue(3)
  ELSE IF CleanMove(getDirectionFromValue(2)) THEN getDirectionFromValue(2)
  ELSE IF CleanMove(getDirectionFromValue(1)) THEN getDirectionFromValue(1)
  ELSE IF CleanMove(getDirectionFromValue(0)) THEN getDirectionFromValue(0)
  ELSE "none"

\* Lines 152-160: the direction the fallback loop returns, or "none".
FallbackDirection ==
  IF CleanMove(getDirectionFromValue(0)) THEN getDirectionFromValue(0)
  ELSE IF CleanMove(getDirectionFromValue(1)) THEN getDirectionFromValue(1)
  ELSE IF CleanMove(getDirectionFromValue(2)) THEN getDirectionFromValue(2)
  ELSE IF CleanMove(getDirectionFromValue(3)) THEN getDirectionFromValue(3)
  ELSE "none"

\* The policy state as the call finds it.
PolicyState ==
  [currentDirection   |-> currentDirection,
   stepsOnCurrentSide |-> stepsOnCurrentSide,
   squareSize         |-> squareSize,
   sidesCompleted     |-> sidesCompleted]

\* The outcome of one call is a record: which return was taken (rung), the
\* direction returned, the policy state and the trail the call leaves, and
\* the positions it passed to updateTrail.

\* An edge return that comes after the square-pattern block.
EdgeOutcome_afterTransition ==
  [rung |-> "edge", move |-> EdgeEscape, policy |-> PatrolTransition,
   trail |-> trail, trailQueue |-> trailQueue, pushed |-> <<>>]

\* Lines 122-125: a return from the edge block.
EdgeOutcome ==
  [rung |-> "edge", move |-> EdgeEscape, policy |-> PolicyState,
   trail |-> trail, trailQueue |-> trailQueue, pushed |-> <<>>]

\* Lines 144-149: the return of the patrol step.
PatrolOutcome ==
  LET t == PatrolTransition
      nextPos == Plus(my_player.position, getDirectionVector(t.currentDirection))
  IN [rung |-> "patrol", move |-> t.currentDirection,
      policy |-> [t EXCEPT !.stepsOnCurrentSide = @ + 1],
      trail |-> updateTrail(trail, trailQueue, nextPos).trail,
      trailQueue |-> updateTrail(trail, trailQueue, nextPos).trailQueue,
      pushed |-> <<nextPos>>]

\* A fallback return that counts its move as a step of the side.
FallbackOutcome_countsStep ==
  LET t == PatrolTransition
      fallbackPos == Plus(my_player.position, getDirectionVector(FallbackDirection))
  IN [rung |-> "fallback", move |-> FallbackDirection,
      policy |-> [t EXCEPT !.stepsOnCurrentSide = @ + 1],
      trail |-> updateTrail(trail, trailQueue, fallbackPos).trail,
      trailQueue |-> updateTrail(trail, trailQueue, fallbackPos).trailQueue,
      pushed |-> <<fallbackPos>>]

\* A fallback return that gives the blocked side up as complete.
FallbackOutcome_endsSide ==
  LET t == PatrolTransition
      fallbackPos == Plus(my_player.position, getDirectionVector(FallbackDirection))
  IN [rung |-> "fallback", move |-> FallbackDirection,
      policy |-> [t EXCEPT !.stepsOnCurrentSide = t.squareSize],
      trail |-> updateTrail(trail, trailQueue, fallbackPos).trail,
      trailQueue |-> updateTrail(trail, trailQueue, fallbackPos).trailQueue,
      pushed |-> <<fallbackPos>>]

\* Lines 152-160: a return from the fallback loop.
FallbackOutcome ==
  LET t == PatrolTransition
      fallbackPos == Plus(my_player.position, getDirectionVector(FallbackDirection))
  IN [rung |-> "fallback", move |-> FallbackDirection, policy |-> t,
      trail |-> updateTrail(trail, trailQueue, fallbackPos).trail,
      trailQueue |-> updateTrail(trail, trailQueue, fallbackPos).trailQueue,
      pushed |-> <<fallbackPos>>]

\* An exit that leaves the policy state as the call found it.
TerminalOutcome_noTransition ==
  [rung |-> "terminal", move |-> "none", policy |-> PolicyState,
   trail |-> trail, trailQueue |-> trailQueue, pushed |-> <<>>]

\* Lines 162-163: exit(1), after the square-pattern block has run.
TerminalOutcome ==
  [rung |-> "terminal", move |-> "none", policy |-> PatrolTransition,
   trail |-> trail, trailQueue |-> trailQueue, pushed |-> <<>>]

\* Lines 111-164: the first of the four returns whose condition holds.
decideMove ==
  IF EdgeEscape /= "none" THEN EdgeOutcome
  ELSE IF CleanMove(PatrolTransition.currentDirection) THEN PatrolOutcome
  ELSE IF FallbackDirection /= "none" THEN FallbackOutcome
  ELSE TerminalOutcome

(***************************************************************************)
(* Snapshots the server may deliver.                                       *)
(***************************************************************************)
OwnRecord(p) == [id |-> 1, name |-> "me", position |-> p]
OtherRecord(p) == [id |-> 2, name |-> "other", position |-> p]

Cells == CellsOf(GridW, GridH)
ArenaCells == CellsOf(ArenaW, ArenaH)

Neighbours(p) == {Plus(p, getDirectionVector(d)) : d \in Directions}

ObstacleKinds == {"ownTrail", "otherTrail", "otherHead"}

\* A snapshot of the free server: the agent at p and at most one obstacle,
\* at c.  kind "none" places no obstacle.
FreeSnapshot(p, c, kind) ==
  [gridWidth  |-> GridW,
   gridHeight |-> GridH,
   grid       |-> [e \in Cells |->
                     IF e = c /\ kind = "ownTrail" THEN 1
                     ELSE IF e = c /\ kind = "otherTrail" THEN 2
                     ELSE 0],
   players    |-> IF kind = "otherHead"
                  THEN <<OtherRecord(c), OwnRecord(p)>>
                  ELSE <<OwnRecord(p)>>]

\* A snapshot whose player list holds no record with the bot's name.
StrangerSnapshot(c) ==
  [gridWidth  |-> GridW,
   gridHeight |-> GridH,
   grid       |-> [e \in Cells |-> 0],
   players    |-> <<OtherRecord(c)>>]

\* The free server sends anything: the agent anywhere on the grid, an
\* obstacle on any of the cells around it, whatever was sent before.
FreeSnapshots ==
  {FreeSnapshot(p, p, "none") : p \in Cells}
  \cup UNION {{FreeSnapshot(p, c, k) : c \in Neighbours(p) \cap Cells,
                                       k \in ObstacleKinds} : p \in Cells}
  \cup {StrangerSnapshot(Pos(0, 0))}

\* The game server's first snapshot: the agent spawned at p, one opponent
\* standing at q, each on a cell marked with its id.
GameFirstSnapshot(p, q) ==
  [gridWidth  |-> ArenaW,
   gridHeight |-> ArenaH,
   grid       |-> [e \in ArenaCells |-> IF e = p THEN 1 ELSE IF e = q THEN 2 ELSE 0],
   players    |-> <<OwnRecord(p), OtherRecord(q)>>]

\* The game server's following snapshots: the agent has moved as it asked,
\* its new cell is marked, the opponent stands still.
GameNextSnapshot ==
  LET p == Plus(my_player.position, getDirectionVector(lastMove)) IN
  [state EXCEPT !.grid = [@ EXCEPT ![p] = 1],
                !.players = <<OwnRecord(p), @[2]>>]

(***************************************************************************)
(* The process: main, the constructor, run.                                *)
(***************************************************************************)
Init ==
  /\ pc = "main"
  /\ exitCode = -1
  /\ exitCause = "none"
  /\ name = ""
  /\ state = [gridWidth |-> 0, gridHeight |-> 0, grid |-> <<>>, players |-> <<>>]
  \* my_player is default-initialised: its position is (0, 0), its id is
  \* whatever the memory holds.
  /\ my_player \in {[id |-> i, name |-> "", position |-> Pos(0, 0)] : i \in 0..2}
  /\ currentDirection = "north"
  /\ trail = {}
  /\ trailQueue = <<>>
  /\ squareSize = 1
  /\ stepsOnCurrentSide = 0
  /\ sidesCompleted = 0
  /\ lastMove = "none"
  /\ rung = "none"
  /\ ticks = 0
  /\ sent = 0
  /\ remembered = <<>>

\* main, lines 212-223: the argument count decides between the usage error
\* and the construction of the bot.
Main(argc) ==
  /\ pc = "main"
  /\ IF argc /= 2
     THEN /\ pc' = "exited"
          /\ exitCode' = 1
          /\ exitCause' = "usage"
          /\ UNCHANGED name
     ELSE /\ pc' = "construct"
          /\ name' = "me"
          /\ UNCHANGED <<exitCode, exitCause>>
  /\ UNCHANGED <<state, my_player, policyVars, trailVars,
                 lastMove, rung, ticks, sent>>

\* The constructor returning normally from its catch block.
ExitCodeOfConstruct_zero(outcome) == IF outcome = "active" THEN -1 ELSE 0

\* BotClient::BotClient, lines 186-200.  outcome is what connection.connect
\* did: "active", "inactive" (isActive() is false) or "throws".
ExitCodeOfConstruct(outcome) == IF outcome = "active" THEN -1 ELSE 1

Construct(outcome) ==
  /\ pc = "construct"
  /\ IF outcome = "active"
     THEN /\ pc' = "run"
          /\ UNCHANGED exitCause
     ELSE /\ pc' = "exited"
          /\ exitCause' = "connect"
  /\ exitCode' = ExitCodeOfConstruct(outcome)
  /\ UNCHANGED <<name, state, my_player, policyVars, trailVars,
                 lastMove, rung, ticks, sent>>

\* BotClient::receiveGameState, lines 167-175: the player record the loop
\* copies into my_player, or my_player itself when no name matches.
FindMyPlayer(snapshot) ==
  LET hits == {i \in 1..Len(snapshot.players) : snapshot.players[i].name = name} IN
  IF hits = {} THEN my_player
  ELSE snapshot.players[CHOOSE i \in hits : \A j \in hits : i <= j]

\* The loop receiving a snapshot and going round without sendMove.
ReceiveGameState_noSend(snapshot) ==
  /\ pc = "run"
  /\ state' = snapshot
  /\ my_player' = FindMyPlayer(snapshot)
  /\ ticks' = ticks + 1
  /\ UNCHANGED <<pc, exitCode, exitCause, name, policyVars, trailVars,
                 lastMove, rung, sent>>

\* run, lines 205-206: connection.isActive() answers true and
\* receiveGameState runs.
ReceiveGameState(snapshot) ==
  /\ pc = "run"
  /\ state' = snapshot
  /\ my_player' = FindMyPlayer(snapshot)
  /\ ticks' = ticks + 1
  /\ pc' = "sendMove"
  /\ UNCHANGED <<exitCode, exitCause, name, policyVars, trailVars,
                 lastMove, rung, sent>>

\* run, line 205 and main, line 225: connection.isActive() answers false,
\* the loop ends and main returns 0.
RunEnds ==
  /\ pc = "run"
  /\ pc' = "exited"
  /\ exitCode' = 0
  /\ exitCause' = "disconnect"
  /\ UNCHANGED <<name, state, my_player, policyVars, trailVars,
                 lastMove, rung, ticks, sent>>

\* BotClient::sendMove, lines 178-182: decideMove, then connection.sendMove;
\* or decideMove's exit(1), lines 162-163.
SendMove ==
  /\ pc = "sendMove"
  /\ \E d \in {decideMove} :
     /\ currentDirection' = d.policy.currentDirection
     /\ squareSize' = d.policy.squareSize
     /\ stepsOnCurrentSide' = d.policy.stepsOnCurrentSide
     /\ sidesCompleted' = d.policy.sidesCompleted
     /\ trail' = d.trail
     /\ trailQueue' = d.trailQueue
     /\ remembered' = remembered \o d.pushed
     /\ rung' = d.rung
     /\ IF d.rung = "terminal"
        THEN /\ pc' = "exited"
             /\ exitCode' = 1
             /\ exitCause' = "nomove"
             /\ UNCHANGED <<lastMove, sent>>
        ELSE /\ pc' = "run"
             /\ lastMove' = d.move
             /\ sent' = sent + 1
             /\ UNCHANGED <<exitCode, exitCause>>
  /\ UNCHANGED <<name, state, my_player, ticks>>

Startup ==
  \/ \E argc \in 1..3 : Main(argc)
  \/ \E outcome \in {"active", "inactive", "throws"} : Construct(outcome)

(***************************************************************************)
(* Spec: the process against a server that may send any snapshot.          *)
(***************************************************************************)
ReceiveFree ==
  /\ ticks < MaxTicks
  /\ \E snapshot \in FreeSnapshots : ReceiveGameState(snapshot)

Next ==
  \/ Startup
  \/ ReceiveFree
  \/ SendMove
  \/ RunEnds

Spec == Init /\ [][Next]_vars

(***************************************************************************)
(* SpecGame: the process against a server that plays the game: the agent   *)
(* is where its moves took it and every cell it visited is marked.         *)
(***************************************************************************)
ReceiveFirst ==
  /\ ticks = 0
  /\ \E p \in ArenaCells : \E q \in ArenaCells \ {p} :
       ReceiveGameState(GameFirstSnapshot(p, q))

ReceiveFollowing ==
  /\ ticks > 0
  /\ ReceiveGameState(GameNextSnapshot)

NextGame ==
  \/ Startup
  \/ ReceiveFirst
  \/ ReceiveFollowing
  \/ SendMove
  \/ RunEnds

SpecGame == Init /\ [][NextGame]_vars

(***************************************************************************)
(* SpecTrail: updateTrail applied to trails at and near capacity.  A drawn *)
(* trail is the one the agent holds after n ticks of a game on a grid with *)
(* a single row outside the edge buffer: spawned at the west end of that   *)
(* row, the agent finds its heading (north) invalid in every tick and      *)
(* falls back to east, remembering the next cell of the row.  Remember is  *)
(* the call as decideMove makes it, lines 145-147 and 155-157: only with a *)
(* position is_self_collision rejects.                                     *)
(***************************************************************************)
TrailCell(i) == Pos(2 + i, 2)

\* The snapshot of the n-th tick of that game: the agent at TrailCell(n - 1),
\* the cells it has visited marked with its id.
RowSnapshot(n) ==
  [gridWidth  |-> MAX_TRAIL_LENGTH + 8,
   gridHeight |-> 5,
   grid       |-> [e \in CellsOf(MAX_TRAIL_LENGTH + 8, 5) |->
                     IF e.y = 2 /\ 2 <= e.x /\ e.x <= n + 1 THEN 1 ELSE 0],
   players    |-> <<OwnRecord(TrailCell(n - 1))>>]

DrawnTrailLengths == (MAX_TRAIL_LENGTH - 3)..MAX_TRAIL_LENGTH

\* The three oldest cells of a drawn trail, and cells that are on none.
RememberCells ==
  {TrailCell(i) : i \in (1..3) \cup ((MAX_TRAIL_LENGTH + 1)..(MAX_TRAIL_LENGTH + 4))}

InitTrail ==
  \E n \in DrawnTrailLengths :
    /\ pc = "run"
    /\ exitCode = -1
    /\ exitCause = "none"
    /\ name = "me"
    /\ state = RowSnapshot(n)
    /\ my_player = OwnRecord(TrailCell(n - 1))
    /\ currentDirection = "north"
    /\ squareSize = 1
    /\ stepsOnCurrentSide = 0
    /\ sidesCompleted = 0
    /\ lastMove = "east"
    /\ rung = "fallback"
    /\ ticks = n
    /\ sent = n
    /\ trailQueue = [i \in 1..n |-> TrailCell(i)]
    /\ trail = {TrailCell(i) : i \in 1..n}
    /\ remembered = [i \in 1..n |-> TrailCell(i)]

Remember(newPos) ==
  /\ Len(remembered) < MAX_TRAIL_LENGTH + MaxRemember
  /\ ~is_self_collision(newPos)
  /\ trail' = updateTrail(trail, trailQueue, newPos).trail
  /\ trailQueue' = updateTrail(trail, trailQueue, newPos).trailQueue
  /\ remembered' = Append(remembered, newPos)
  /\ UNCHANGED <<pc, exitCode, exitCause, name, state, my_player, policyVars,
                 lastMove, rung, ticks, sent>>

NextTrail == \E newPos \in RememberCells : Remember(newPos)

SpecTrail == InitTrail /\ [][NextTrail]_vars

(***************************************************************************)
(* SpecPatrol: the process against a server that never blocks the patrol:  *)
(* the grid stays empty and every snapshot puts the agent clear of the     *)
(* edge buffer, with the patrol heading valid and off the trail.           *)
(***************************************************************************)
PatrolW == 3 * MaxPatrolTicks + 6
PatrolRows == {3, 4}
PatrolGrid == [e \in CellsOf(PatrolW, PatrolH) |-> 0]

\* The snapshot of tick number t + 1: the agent in a column of its own, three
\* columns from that of the tick before, on one of the rows.
PatrolSnapshot(t, row) ==
  [gridWidth  |-> PatrolW,
   gridHeight |-> PatrolH,
   grid       |-> PatrolGrid,
   players    |-> <<OwnRecord(Pos(3 * t + 3, row))>>]

ReceivePatrol ==
  /\ ticks < MaxPatrolTicks
  /\ \E row \in PatrolRows : ReceiveGameState(PatrolSnapshot(ticks, row))
  /\ (EdgeEscape = "none")'
  /\ CleanMove(PatrolTransition.currentDirection)'

NextPatrol ==
  \/ Startup
  \/ ReceivePatrol
  \/ SendMove
  \/ RunEnds

SpecPatrol == Init /\ [][NextPatrol]_vars

(***************************************************************************)
(* Properties.                                                             *)
(***************************************************************************)
Destination(direction) == Plus(my_player.position, getDirectionVector(direction))

\* The four rules of the move validator, for the destination of a direction.
InBounds(p) == p \in CellsOf(state.gridWidth, state.gridHeight)
CellEmpty(p) == state.grid[p] = 0
NoOtherHead(p) ==
  \A i \in 1..Len(state.players) :
    state.players[i].id /= my_player.id => state.players[i].position /= p
OffEdgeBuffer(p) ==
  /\ 2 <= p.x /\ p.x < state.gridWidth - 2
  /\ 2 <= p.y /\ p.y < state.gridHeight - 2
ValidatorRules(direction) ==
  /\ InBounds(Destination(direction))
  /\ CellEmpty(Destination(direction))
  /\ NoOtherHead(Destination(direction))
  /\ OffEdgeBuffer(Destination(direction))

\* A move has been decided and sent on the snapshot in state, and no later
\* snapshot has been received.
MoveSent == pc = "run" /\ rung \in {"edge", "patrol", "fallback"}

\* C1: for every snapshot, own position and direction, is_valid_move answers
\* true exactly when the destination is inside the grid, its cell is empty,
\* no player with another id stands on it, and it is at least two cells
\* from every edge.
C1_ValidatorIffRules ==
  \A d \in Directions : is_valid_move(d) <=> ValidatorRules(d)

\* A snapshot in which north is a valid move and east is rejected only
\* because another player stands on its destination.
C1_Witness ==
  /\ pc = "sendMove"
  /\ is_valid_move("north")
  /\ ~is_valid_move("east")
  /\ InBounds(Destination("east"))
  /\ CellEmpty(Destination("east"))
  /\ OffEdgeBuffer(Destination("east"))

\* C2: whatever the trail holds and whichever return of decideMove produced
\* it, the direction sent passes the move validator on the snapshot it was
\* decided on: its destination is in bounds, empty, not another player's
\* position and outside the edge buffer.
C2_SentMoveIsValid ==
  MoveSent => is_valid_move(lastMove) /\ ValidatorRules(lastMove)

\* A fallback move sent while the trail already held a position.
C2_Witness ==
  /\ MoveSent
  /\ rung = "fallback"
  /\ Len(trailQueue) = 2

\* The edge probes in their order, and the first that passes the validator
\* (0 when none does).
EdgeProbes ==
  <<[near |-> nearRight,  direction |-> "west"],
    [near |-> nearLeft,   direction |-> "east"],
    [near |-> nearTop,    direction |-> "south"],
    [near |-> nearBottom, direction |-> "north"]>>
PassingProbes ==
  {i \in 1..4 : EdgeProbes[i].near /\ ValidatorRules(EdgeProbes[i].direction)}
FirstPassingProbe ==
  IF PassingProbes = {} THEN 0
  ELSE CHOOSE i \in PassingProbes : \A j \in PassingProbes : i <= j

\* A direction that passes the validator and whose destination is not in
\* the trail.
TrailClean(direction) ==
  ValidatorRules(direction) /\ Destination(direction) \notin trail

\* A tick that sends a move: the step of sendMove that returns to the loop.
SendsMove == pc = "sendMove" /\ pc' = "run"

\* C3: the direction sent follows the priority ladder: the first edge probe
\* that passes the validator; otherwise the patrol heading (after this
\* tick's transition) when it is valid and its destination is not in the
\* trail; otherwise the first direction_from_value(i), i = 0..3, that is
\* valid and whose destination is not in the trail.
C3_PriorityLadder ==
  [][SendsMove =>
       IF FirstPassingProbe /= 0
       THEN lastMove' = EdgeProbes[FirstPassingProbe].direction
       ELSE IF TrailClean(currentDirection')
       THEN lastMove' = currentDirection'
       ELSE \E i \in 0..3 :
              /\ lastMove' = getDirectionFromValue(i)
              /\ TrailClean(getDirectionFromValue(i))
              /\ \A j \in 0..(i - 1) : ~TrailClean(getDirectionFromValue(j))]_vars

\* A fallback move that is the third candidate of the sweep: the patrol
\* heading and the first two candidates were rejected.
C3_Witness ==
  /\ MoveSent
  /\ rung = "fallback"
  /\ lastMove = getDirectionFromValue(2)

\* C4: decideMove ends the process (exit code 1, no move sent on the
\* snapshot) exactly when no edge probe passes the validator and each of
\* the four directions fails the validator or leads into the trail.
C4_TerminatesIffNoCleanMove ==
  [][pc = "sendMove" =>
       /\ (pc' = "exited") <=>
            (FirstPassingProbe = 0 /\ \A d \in Directions : ~TrailClean(d))
       /\ pc' = "exited" =>
            exitCode' = 1 /\ sent' = sent /\ lastMove' = lastMove]_vars

\* The process has exited although a direction passed the validator: its
\* destination was in the trail.
C4_Witness ==
  /\ pc = "exited"
  /\ exitCause = "nomove"
  /\ \E d \in Directions : ValidatorRules(d) /\ Destination(d) \in trail

\* The last n elements of a sequence.
LastOf(q, n) == SubSeq(q, Len(q) - n + 1, Len(q))

Min(a, b) == IF a <= b THEN a ELSE b

\* C5: after k calls of updateTrail the trail holds at most 200 entries and
\* is exactly the last min(k, 200) remembered positions: the queue lists
\* them oldest first, and the set holds exactly those positions.
C5_TrailIsLastRemembered ==
  /\ Len(trailQueue) <= 200
  /\ Cardinality(trail) <= 200
  /\ trailQueue = LastOf(remembered, Min(Len(remembered), 200))
  /\ trail = Range(trailQueue)

\* More than 200 positions were remembered, the oldest two were evicted and
\* the oldest was then remembered again.
C5_Witness ==
  /\ Len(remembered) > 200
  /\ Len(trailQueue) = 200
  /\ remembered[1] \in trail
  /\ remembered[2] \notin trail
  /\ trailQueue[200] = remembered[1]

\* C6: between ticks, 0 <= sidesCompleted <= 3 and squareSize >= 1, and
\* squareSize never decreases from one tick to the next.
C6_AutomatonInvariant ==
  /\ [](sidesCompleted \in 0..3 /\ squareSize >= 1)
  /\ [][squareSize' >= squareSize]_vars

\* The fourth rotation has happened: the square has grown and the count of
\* sides has started again.
C6_Witness ==
  /\ pc = "run"
  /\ squareSize = 2
  /\ sidesCompleted = 0

\* C8, as claimed: ticks run receive, decide, send; every send follows
\* exactly one receive since the previous send, and every received snapshot
\* is paired with exactly one sent move.
C8_EverySnapshotAnswered ==
  /\ pc \in {"main", "construct"} => ticks = 0 /\ sent = 0
  /\ pc = "sendMove" => ticks = sent + 1
  /\ pc = "run" => ticks = sent
  /\ pc = "exited" => ticks = sent

\* C8, amended: every send follows exactly one receive since the previous
\* send, and every received snapshot is paired with exactly one sent move,
\* except the snapshot on which decideMove ends the process, which is
\* paired with none.
C8_SnapshotsPairedUnlessTerminal ==
  /\ pc \in {"main", "construct"} => ticks = 0 /\ sent = 0
  /\ pc = "sendMove" => ticks = sent + 1
  /\ pc = "run" => ticks = sent
  /\ pc = "exited" /\ exitCause /= "nomove" => ticks = sent
  /\ pc = "exited" /\ exitCause = "nomove" => ticks = sent + 1

\* One snapshot was answered by a move, the next one ended the process
\* unanswered.
C8_Witness ==
  /\ pc = "exited"
  /\ exitCause = "nomove"
  /\ sent = 1
  /\ ticks = 2

\* C9: the exit code is 0 exactly when the loop ended because the
\* connection reported inactive, and non-zero after a wrong argument count,
\* a failed connection at startup and a no-valid-move exit; no move is sent
\* before the connection succeeded.
C9_ExitCodes ==
  /\ pc /= "exited" => exitCode = -1
  /\ pc = "exited" =>
       /\ exitCode = 0 <=> exitCause = "disconnect"
       /\ exitCause \in {"usage", "connect", "nomove"} => exitCode /= 0
       /\ exitCause \in {"usage", "connect", "nomove", "disconnect"}
  /\ pc \in {"main", "construct"} \/ exitCause \in {"usage", "connect"} =>
       sent = 0 /\ ticks = 0

\* The connection failed at startup and the process exited with code 1.
C9_Witness ==
  /\ pc = "exited"
  /\ exitCause = "connect"
  /\ exitCode = 1

\* C10, as claimed: in every tick the destination of the direction sent is
\* not in the trail at the moment of the decision.
C10_SentMoveAvoidsTrail ==
  [][SendsMove => Destination(lastMove') \notin trail]_vars

\* C10, amended: in every tick whose move comes from the patrol step or
\* the fallback sweep, the destination of the direction sent is not in the
\* trail at the moment of the decision.
C10_PatrolAndFallbackAvoidTrail ==
  [][SendsMove /\ rung' /= "edge" => Destination(lastMove') \notin trail]_vars

\* A fallback move sent although the patrol heading passed the validator:
\* the heading's destination was in the trail.
C10_Witness ==
  /\ MoveSent
  /\ rung = "fallback"
  /\ currentDirection /= lastMove
  /\ ValidatorRules(currentDirection)
  /\ Destination(currentDirection) \in trail

\* The heading one step clockwise of a heading.
ClockwiseOrder == <<"north", "east", "south", "west">>
Clockwise(direction) ==
  LET i == CHOOSE k \in 1..4 : ClockwiseOrder[k] = direction IN
  ClockwiseOrder[(i % 4) + 1]

\* The side is complete when the tick begins.
SideComplete == stepsOnCurrentSide >= squareSize

\* The step of sendMove, whether it sends a move or ends the process.
Decides == pc = "sendMove" /\ pc' /= "sendMove"

\* The automaton transition of one tick, from the policy state at tick
\* entry to the heading, side length and count of sides after it.
TransitionApplied ==
  IF SideComplete
  THEN /\ currentDirection' = Clockwise(currentDirection)
       /\ sidesCompleted' = (sidesCompleted + 1) % 4
       /\ squareSize' = IF sidesCompleted + 1 = 4 THEN squareSize + 1 ELSE squareSize
  ELSE /\ currentDirection' = currentDirection
       /\ sidesCompleted' = sidesCompleted
       /\ squareSize' = squareSize

\* C11: in every tick that does not end with an edge escape the automaton
\* transition is applied before the move attempt: a complete side turns the
\* heading one step clockwise, sets stepsOnCurrentSide to 0 and counts the
\* side, the fourth side resetting the count and growing the square; an
\* incomplete side leaves heading, side length and count as they were.  The
\* heading turns at most once in a tick.
C11_TransitionBeforeMove ==
  [][Decides /\ rung' /= "edge" =>
       /\ TransitionApplied
       /\ stepsOnCurrentSide' =
            (IF SideComplete THEN 0 ELSE stepsOnCurrentSide)
              + (IF rung' = "patrol" THEN 1 ELSE 0)
       /\ currentDirection' \in {currentDirection, Clockwise(currentDirection)}]_vars

\* The fourth rotation happened in a tick whose patrol step then succeeded.
C11_Witness ==
  /\ pc = "run"
  /\ rung = "patrol"
  /\ squareSize = 2
  /\ sidesCompleted = 0
  /\ stepsOnCurrentSide = 1
  /\ currentDirection = "north"

\* C12: a tick that returns an edge-escape direction leaves the policy state
\* (heading, stepsOnCurrentSide, side length, count of sides) and the trail
\* memory exactly as they were at tick entry, also when the side was complete
\* at entry.
C12_EdgeEscapeKeepsState ==
  [][SendsMove /\ rung' = "edge" =>
       UNCHANGED <<policyVars, trailVars>>]_vars

\* An edge escape was sent in a tick that began with a complete side.
C12_Witness ==
  /\ MoveSent
  /\ rung = "edge"
  /\ stepsOnCurrentSide >= squareSize
  /\ trailQueue /= <<>>

\* The trail memory after one more position has been remembered.
Remembers(pos) ==
  /\ remembered' = Append(remembered, pos)
  /\ trailQueue' = IF Len(trailQueue) < MAX_TRAIL_LENGTH
                   THEN Append(trailQueue, pos)
                   ELSE Append(Tail(trailQueue), pos)
  /\ trail' = Range(trailQueue')

\* C13: a fallback tick does not increment stepsOnCurrentSide and does not
\* itself change heading, side length or count of sides: after the tick they
\* are what the tick's transition made them, and the only other change is
\* that the fallback destination is remembered.  A successful patrol step
\* increments stepsOnCurrentSide by exactly 1 and remembers exactly its
\* destination.
C13_FallbackAndPatrolEffects ==
  [][SendsMove =>
       /\ rung' = "fallback" =>
            /\ TransitionApplied
            /\ stepsOnCurrentSide' = IF SideComplete THEN 0 ELSE stepsOnCurrentSide
            /\ Remembers(Destination(lastMove'))
       /\ rung' = "patrol" =>
            /\ TransitionApplied
            /\ stepsOnCurrentSide' = (IF SideComplete THEN 0 ELSE stepsOnCurrentSide) + 1
            /\ lastMove' = currentDirection'
            /\ Remembers(Destination(lastMove'))]_vars

\* A fallback step was taken in the tick that turned the heading.
C13_Witness ==
  /\ MoveSent
  /\ rung = "fallback"
  /\ stepsOnCurrentSide = 0
  /\ sidesCompleted = 1
  /\ lastMove /= currentDirection
  /\ Len(remembered) = 2

\* The previous tick ended in a fallback step and the next decision is due.
AfterFallback == pc = "sendMove" /\ rung = "fallback"

\* C14 as stated: the tick that follows a fallback tick takes a patrol step
\* in the heading the fallback tick left.
C14_PatrolResumesNextTick ==
  [][AfterFallback /\ Decides =>
       /\ rung' = "patrol"
       /\ lastMove' = currentDirection
       /\ currentDirection' = currentDirection]_vars

\* C14: a fallback tick leaves the side incomplete, so the tick that follows
\* it, unless it ends in an edge escape, attempts the same heading again
\* without another rotation; it takes the patrol step exactly when that
\* heading is then valid and off the trail, and takes a further fallback step
\* or exits otherwise.
C14_PatrolRetriedNextTick ==
  [][AfterFallback /\ Decides =>
       /\ stepsOnCurrentSide < squareSize
       /\ UNCHANGED <<currentDirection, squareSize, sidesCompleted>>
       /\ rung' /= "edge" =>
            /\ rung' = "patrol" <=> TrailClean(currentDirection)
            /\ rung' = "patrol" => lastMove' = currentDirection]_vars

\* The tick after a fallback tick finds the rotated heading free.
C14_Witness ==
  /\ AfterFallback
  /\ sidesCompleted >= 1
  /\ EdgeEscape = "none"
  /\ TrailClean(currentDirection)

\* The cycle of the spiral that the n-th move belongs to: cycle k is made of
\* the moves 2k(k-1)+1 to 2k(k+1).
CycleOf(n) == CHOOSE k \in 1..n : 2 * k * (k - 1) < n /\ n <= 2 * k * (k + 1)

\* The n-th move of the spiral: in cycle k, k moves north, then k east, k
\* south and k west.
SpiralMove(n) ==
  LET k == CycleOf(n)
      offset == n - 2 * k * (k - 1) - 1
  IN ClockwiseOrder[(offset \div k) + 1]

\* C15: from the initial policy state, over a run in which the agent is never
\* in the edge buffer and the patrol heading is always valid and off the
\* trail, the moves form a clockwise square patrol of increasing size: the
\* k-th cycle is k moves north, k east, k south and k west, and squareSize is
\* k throughout the k-th cycle.
C15_SpiralPatrol ==
  MoveSent =>
    /\ rung = "patrol"
    /\ lastMove = SpiralMove(sent)
    /\ squareSize = CycleOf(sent)

\* Two cycles are complete and the third has begun.
C15_Witness ==
  /\ MoveSent
  /\ sent = 13
  /\ lastMove = "north"
  /\ squareSize = 3

\* C16 as stated: the own position and id a decision uses are those of the
\* record of that tick's snapshot that bears the bot's name, also when the
\* snapshot holds no such record: never those of an earlier snapshot.
C16_DecisionUsesCurrentRecord ==
  pc = "sendMove" =>
    \E i \in 1..Len(state.players) :
      /\ state.players[i].name = name
      /\ my_player.position = state.players[i].position
      /\ my_player.id = state.players[i].id

\* The own position the decision uses lies in the edge buffer.
InEdgeBuffer == ~OffEdgeBuffer(my_player.position)

\* C17: when the agent is in the edge buffer and no edge probe passes the
\* validator, the tick does not end at the edge block: the automaton
\* transition is applied, then the patrol step is tried, then the fallback
\* sweep, and the process exits only when neither finds a direction.
C17_DropsThroughFromEdge ==
  [][Decides /\ InEdgeBuffer /\ FirstPassingProbe = 0 =>
       /\ rung' /= "edge"
       /\ TransitionApplied
       /\ rung' = "patrol" <=> TrailClean(currentDirection')
       /\ rung' = "fallback" <=>
            /\ ~TrailClean(currentDirection')
            /\ \E d \in Directions : TrailClean(d)
       /\ rung' = "terminal" <=> \A d \in Directions : ~TrailClean(d)]_vars

\* The process exited from inside the edge buffer in a tick whose transition
\* had turned the heading from north to east.
C17_Witness ==
  /\ pc = "exited"
  /\ exitCause = "nomove"
  /\ InEdgeBuffer
  /\ currentDirection = "east"
  /\ stepsOnCurrentSide = 0
  /\ sidesCompleted = 1

\* C18: updateTrail is never called with a position that is still in the
\* trail, whatever ticks and snapshots came before; so the set and the queue
\* hold the same elements, the queue has no duplicates and their sizes are
\* equal.
C18_NoReinsertion ==
  [][/\ remembered' /= remembered =>
          /\ Len(remembered') = Len(remembered) + 1
          /\ remembered'[Len(remembered')] \notin trail
     /\ trail' = Range(trailQueue')
     /\ Cardinality(trail') = Len(trailQueue')
     /\ \A i, j \in 1..Len(trailQueue') :
          trailQueue'[i] = trailQueue'[j] => i = j]_vars

\* A move was sent from a position where another direction was valid and led
\* back to a remembered cell.
C18_Witness ==
  /\ MoveSent
  /\ rung \in {"patrol", "fallback"}
  /\ Cardinality(trail) = 2
  /\ \E d \in Directions \ {lastMove} :
       ValidatorRules(d) /\ Destination(d) \in trail

\* The directions the edge block probes for the own position.
ProbedDirections == {EdgeProbes[i].direction : i \in {j \in 1..4 : EdgeProbes[j].near}}

\* The own position lies on the outermost ring of the grid, and in the edge
\* buffer on both axes.
OnOuterRing ==
  \/ my_player.position.x = 0 \/ my_player.position.x = state.gridWidth - 1
  \/ my_player.position.y = 0 \/ my_player.position.y = state.gridHeight - 1
InBufferOnBothAxes ==
  /\ my_player.position.x < 2 \/ my_player.position.x >= state.gridWidth - 2
  /\ my_player.position.y < 2 \/ my_player.position.y >= state.gridHeight - 2

\* C19: whenever the own position lies in the edge buffer, every direction
\* that passes the validator is one the edge block probes for that position;
\* so a tick in which the edge block returns nothing ends in the exit, and
\* from a position on the outermost ring, or in the buffer on both axes, no
\* move is sent at all.
C19_OnlyProbedMovesInBuffer ==
  [][Decides /\ InEdgeBuffer =>
       /\ \A d \in Directions : is_valid_move(d) => d \in ProbedDirections
       /\ FirstPassingProbe = 0 =>
            pc' = "exited" /\ rung' = "terminal" /\ sent' = sent
       /\ OnOuterRing \/ InBufferOnBothAxes =>
            /\ \A d \in Directions : ~is_valid_move(d)
            /\ pc' = "exited" /\ rung' = "terminal" /\ sent' = sent]_vars

\* The process exited from a position in the buffer on one axis only, whose
\* one probe was blocked by an obstacle.
C19_Witness ==
  /\ pc = "exited"
  /\ exitCause = "nomove"
  /\ InEdgeBuffer
  /\ ~OnOuterRing
  /\ ~InBufferOnBothAxes
  /\ \E d \in ProbedDirections : OffEdgeBuffer(Destination(d))

\* C20: in every state between ticks, 0 <= stepsOnCurrentSide <= squareSize.
C20_StepsWithinSide ==
  0 <= stepsOnCurrentSide /\ stepsOnCurrentSide <= squareSize

\* A side of two steps is complete.
C20_Witness ==
  /\ pc = "run"
  /\ squareSize = 2
  /\ stepsOnCurrentSide = 2

====
